---- MODULE Spec2Model ----
(***************************************************************************)
(* Model of the ms-users filter-query compiler (redis-search-stack), of    *)
(* the listing orchestration around it, of the token operations of         *)
(* utils/jwt.js and of the mailer client of the Users service.             *)
(*                                                                         *)
(* JavaScript strings are sequences of tokens: <<"f", "_", "username">>    *)
(* is the string "f_username".  The characters the code inspects ("|",     *)
(* "_", "#", "#multi") are tokens of their own, so that join and replace   *)
(* are computed as the code computes them.                                 *)
(***************************************************************************)
EXTENDS Integers, Sequences, FiniteSets, TLC

VARIABLES
    cpc,          \* position of the compile run: "input", "resolved", "compiled"
    propName,     \* the filter property name handed to the compiler
    valueOrExpr,  \* the criterion: a string value, an operator object, an array
    resolved,     \* outcome of normalizeFilterProp(propName, valueOrExpr)
    compiled      \* outcome of compiling the criterion

cvars == <<cpc, propName, valueOrExpr, resolved, compiled>>

VARIABLES
    pc,           \* position of the list call: "idle", "executing", "hydrating", "done"
    registry,     \* audiences that have a provisioned search index
    request,      \* the ListRequest being served
    assembled,    \* the query assembled from request.filter
    engineReply,  \* what the index engine answered: "none", "ok", "error"
    matched,      \* identities the engine matched, in its order
    result        \* what list hands back to the caller

lvars == <<pc, registry, request, assembled, engineReply, matched, result>>

VARIABLES
    jpc,               \* position of the jwt call: "idle", "awaiting", "done"
    statelessEnabled,  \* config.jwt.stateless.enabled
    jop,               \* the jwt operation being served: "verify", "logout", "reset"
    token,             \* the token handed to verify or logout
    requestedAudience, \* the audience handed to verify or logout
    called,            \* backend calls made by the operation, in call order
    succeeded,         \* the backend calls that resolved
    outcome            \* what the operation answered, "none" while it runs

jvars ==
    <<jpc, statelessEnabled, jop, token, requestedAudience, called, succeeded, outcome>>

VARIABLES
    _mailer,        \* Users#_mailer: undefined, null, or the Mailer client
    errorListener,  \* whether an 'error' listener is attached to the service
    fsortAttached,  \* whether fsort was attached to the redis cluster client
    events,         \* the amqp plugin events delivered so far, oldest first
    reads           \* what each read of Users#mailer did, oldest first

mvars == <<_mailer, errorListener, fsortAttached, events, reads>>

vars == <<cvars, lvars, jvars, mvars>>

----------------------------------------------------------------------------
(* Bounds of the model.                                                    *)

MaxKeys == 2      \* own keys of an operator object
MaxFields == 2    \* length of a #multi "fields" array
MaxArrayLen == 1  \* length of an array passed where a criterion is expected
MaxCriteria == 2  \* criteria of one filter mapping
MaxOffset == 1    \* largest offset a request carries
MaxEvents == 3    \* amqp plugin events delivered to one service
MaxReads == 2     \* reads of the mailer getter that are recorded

----------------------------------------------------------------------------
(* JavaScript values.  A primitive is [t |-> typeof, v |-> String(value)]. *)

Undefined == [t |-> "undefined", v |-> <<"undefined">>]
StringValue(s) == [t |-> "string", v |-> s]
NumberValue(s) == [t |-> "number", v |-> s]

NonFiniteRenderings == {<<"NaN">>, <<"Infinity">>, <<"-Infinity">>}
IsFiniteNumber(p) == p.t = "number" /\ p.v \notin NonFiniteRenderings

\* Array.prototype.join
RECURSIVE Join(_, _)
Join(parts, sep) ==
    IF parts = <<>> THEN <<>>
    ELSE IF Len(parts) = 1 THEN parts[1]
    ELSE parts[1] \o sep \o Join(Tail(parts), sep)

NoOps == [k \in {} |-> Undefined]
NoFields == [kind |-> "absent", names |-> <<>>]

\* the three shapes a criterion can arrive in
StringCriterion(s) ==
    [kind |-> "string", str |-> s, ops |-> NoOps, fields |-> NoFields, arr |-> <<>>]
ObjectCriterion(ops, fields) ==
    [kind |-> "object", str |-> <<>>, ops |-> ops, fields |-> fields, arr |-> <<>>]
ArrayCriterion(items) ==
    [kind |-> "array", str |-> <<>>, ops |-> NoOps, fields |-> NoFields, arr |-> items]

\* expr.<key>: an own property of an operator object, undefined otherwise
Get(expr, key) ==
    IF expr.kind = "object" /\ key \in DOMAIN expr.ops THEN expr.ops[key] ELSE Undefined

\* actionTypeOrValue.fields
GetFields(expr) == IF expr.kind = "object" THEN expr.fields ELSE NoFields

\* ToPropertyKey(valueOrExpr) of a non-string: Object.prototype.toString for a
\* plain object, Array.prototype.toString (join(",")) for an array
ToPropertyKey(expr) ==
    IF expr.kind = "array" THEN Join(expr.arr, <<",">>) ELSE <<"[object Object]">>

----------------------------------------------------------------------------
(* constants.js and ./expressions                                          *)

USERS_ID_FIELD == <<"id">>

NEGATIVE_NUMBER_INF == <<"-inf">>
POSITIVE_NUMBER_INF == <<"+inf">>

paramRef(name) == <<"$">> \o name
namedField(prop) == <<"@">> \o prop
tag(item) == <<"{">> \o item \o <<"}">>
negative(expr) == <<"-">> \o expr
matchAny(item) == <<"(">> \o item \o <<"*", ")">>
expression(name, value) == name \o <<":">> \o value
numericRange(min, max) ==
    <<"[">> \o (IF min.t = "undefined" THEN NEGATIVE_NUMBER_INF ELSE min.v)
        \o <<" ">>
        \o (IF max.t = "undefined" THEN POSITIVE_NUMBER_INF ELSE max.v)
        \o <<"]">>

----------------------------------------------------------------------------
(* normalize-filter-prop.js                                                *)

Ok(value) == [status |-> "ok", value |-> value]
Thrown(kind) == [status |-> kind, value |-> <<>>]

normalizeFilterProp(prop, actionTypeOrValue) ==
    IF prop = <<"#">> THEN Ok(USERS_ID_FIELD)
    ELSE IF prop = <<"#multi">>
         THEN IF GetFields(actionTypeOrValue).kind = "array"
              THEN Ok(Join(GetFields(actionTypeOrValue).names, <<"|">>))
              ELSE Thrown("TypeError")
         ELSE Ok(prop)

----------------------------------------------------------------------------
(* build-search-query: the clause builders and the parameter builders      *)

EMPTY_VALUE == <<"\"\"">>

buildParamName(args) == Join(args, <<"_">>)
normalizePropName(prop) ==
    [i \in 1..Len(prop) |-> IF prop[i] = "|" THEN "_" ELSE prop[i]]

Param(name, value) == [name |-> name, value |-> value]

searchQueryBuilder_gte(prop, field, expr) ==
    expression(field, numericRange(Get(expr, "gte"), Get(expr, "lte")))
searchQueryBuilder_lte(prop, field, expr) ==
    expression(field, numericRange(Get(expr, "gte"), Get(expr, "lte")))
searchQueryBuilder_exists(prop, field, expr) ==
    negative(expression(field, EMPTY_VALUE))
searchQueryBuilder_isempty(prop, field, expr) ==
    expression(field, EMPTY_VALUE)
searchQueryBuilder_eq(prop, field, expr) ==
    expression(field, tag(paramRef(buildParamName(<< <<"f">>, prop, <<"eq">> >>))))
\* negative(expression(field), tag(paramRef(name))): expression gets no value
\* (it renders undefined), and negative takes one argument, so the tag is dropped
searchQueryBuilder_ne(prop, field, expr) ==
    negative(expression(field, Undefined.v))
searchQueryBuilder_match(prop, field, expr) ==
    expression(field,
        matchAny(paramRef(buildParamName(<< <<"f">>, normalizePropName(prop), <<"m">> >>))))

searchQueryBuilderKeys ==
    {<<"gte">>, <<"lte">>, <<"exists">>, <<"isempty">>, <<"eq">>, <<"ne">>, <<"match">>}

searchQueryBuilder(key, prop, field, expr) ==
    CASE key = <<"gte">> -> searchQueryBuilder_gte(prop, field, expr)
      [] key = <<"lte">> -> searchQueryBuilder_lte(prop, field, expr)
      [] key = <<"exists">> -> searchQueryBuilder_exists(prop, field, expr)
      [] key = <<"isempty">> -> searchQueryBuilder_isempty(prop, field, expr)
      [] key = <<"eq">> -> searchQueryBuilder_eq(prop, field, expr)
      [] key = <<"ne">> -> searchQueryBuilder_ne(prop, field, expr)
      [] key = <<"match">> -> searchQueryBuilder_match(prop, field, expr)

searchParamBuilder_eq(prop, expr) ==
    Param(buildParamName(<< <<"f">>, prop, <<"eq">> >>), Get(expr, "eq"))
searchParamBuilder_ne(prop, expr) ==
    Param(buildParamName(<< <<"f">>, prop, <<"ne">> >>), Get(expr, "ne"))
searchParamBuilder_match(prop, expr) ==
    Param(buildParamName(<< <<"f">>, normalizePropName(prop), <<"m">> >>), Get(expr, "match"))

searchParamBuilderKeys == {<<"eq">>, <<"ne">>, <<"match">>}

searchParamBuilder(key, prop, expr) ==
    CASE key = <<"eq">> -> searchParamBuilder_eq(prop, expr)
      [] key = <<"ne">> -> searchParamBuilder_ne(prop, expr)
      [] key = <<"match">> -> searchParamBuilder_match(prop, expr)

Built(query, params) == [status |-> "ok", query |-> query, params |-> params]
Failed(kind) == [status |-> kind, query |-> <<>>, params |-> <<>>]

\* the plain-value branch with the value written into the tag itself
buildSearchQuery_interpolated(prop, expr) ==
    LET field == namedField(prop)
        key == ToPropertyKey(expr)
    IN  IF expr.kind = "string"
        THEN Built(expression(field, tag(expr.str)),
                   << Param(buildParamName(<< <<"f">>, field >>), StringValue(expr.str)) >>)
        ELSE IF key \notin searchQueryBuilderKeys
             THEN Failed("TypeError")
             ELSE Built(searchQueryBuilder(key, prop, field, expr),
                        IF key \in searchParamBuilderKeys
                        THEN << searchParamBuilder(key, prop, expr) >>
                        ELSE <<>>)

\* searchQueryBuilder[valueOrExpr] converts the criterion itself to the property
\* key; calling the undefined it finds throws TypeError
buildSearchQuery(prop, expr) ==
    LET field == namedField(prop)
        pName == buildParamName(<< <<"f">>, field >>)
        key == ToPropertyKey(expr)
    IN  IF expr.kind = "string"
        THEN Built(expression(field, tag(paramRef(pName))),
                   << Param(pName, StringValue(expr.str)) >>)
        ELSE IF key \notin searchQueryBuilderKeys
             THEN Failed("TypeError")
             ELSE Built(searchQueryBuilder(key, prop, field, expr),
                        IF key \in searchParamBuilderKeys
                        THEN << searchParamBuilder(key, prop, expr) >>
                        ELSE <<>>)

\* CriterionCompiler.compile: the field is resolved, then the clause is built
compile(prop, expr) ==
    LET r == normalizeFilterProp(prop, expr)
    IN  IF r.status = "ok" THEN buildSearchQuery(r.value, expr) ELSE Failed(r.status)

----------------------------------------------------------------------------
(* Inputs of a compile run                                                 *)

PropNames ==
    {<<"#">>, <<"#multi">>, <<"username">>, <<"firstName", "|", "lastName">>}

FieldNames == {<<"firstName">>, <<"lastName">>}

OperatorKeys == {"eq", "ne", "match", "exists", "isempty", "gte", "lte"}
ObjectKeys == OperatorKeys \cup {"foo"}

HostileText == <<"1] | @secret:[0">>
StringValues == {StringValue(<<"gmail">>), StringValue(HostileText)}
PrimValues == StringValues \cup {NumberValue(<<"18">>), NumberValue(<<"NaN">>)}

SeqsUpTo(S, n) == UNION {[1..k -> S] : k \in 0..n}

FieldsVariants ==
    {NoFields, [kind |-> "other", names |-> <<>>]}
        \cup {[kind |-> "array", names |-> s] : s \in SeqsUpTo(FieldNames, MaxFields)}

KeySets == {K \in SUBSET ObjectKeys : Cardinality(K) <= MaxKeys}

Criteria ==
    {StringCriterion(p.v) : p \in StringValues}
        \cup {ObjectCriterion([k \in K |-> p], f) :
                K \in KeySets, p \in PrimValues, f \in FieldsVariants}
        \cup {ArrayCriterion(a) : a \in SeqsUpTo({<<k>> : k \in ObjectKeys}, MaxArrayLen)}

NotRun == [status |-> "none", value |-> <<>>]
NotCompiled == [status |-> "none", query |-> <<>>, params |-> <<>>]

CompileInit ==
    /\ cpc = "input"
    /\ propName \in PropNames
    /\ valueOrExpr \in Criteria
    /\ resolved = NotRun
    /\ compiled = NotCompiled

\* FieldResolver.resolve called on its own
Resolve ==
    /\ cpc = "input"
    /\ resolved' = normalizeFilterProp(propName, valueOrExpr)
    /\ cpc' = "resolved"
    /\ UNCHANGED <<propName, valueOrExpr, compiled>>
    /\ UNCHANGED <<lvars, jvars, mvars>>

\* CriterionCompiler.compile
Compile ==
    /\ cpc = "input"
    /\ resolved' = normalizeFilterProp(propName, valueOrExpr)
    /\ compiled' = compile(propName, valueOrExpr)
    /\ cpc' = "compiled"
    /\ UNCHANGED <<propName, valueOrExpr>>
    /\ UNCHANGED <<lvars, jvars, mvars>>

CompileNext == Resolve \/ Compile

----------------------------------------------------------------------------
(* QueryAssembler.assemble: the criteria of a filter mapping, in insertion *)
(* order, joined into one conjunctive query with the merged parameters     *)

Range(f) == {f[i] : i \in DOMAIN f}
Names(params) == [i \in DOMAIN params |-> params[i].name]

Assembly(status, clauses, params) ==
    [status |-> status, clauses |-> clauses, params |-> params]

RECURSIVE assembleFrom(_, _, _)
assembleFrom(filter, i, acc) ==
    IF i > Len(filter) THEN acc
    ELSE LET c == compile(filter[i].prop, filter[i].crit)
         IN  IF c.status # "ok" THEN Assembly(c.status, <<>>, <<>>)
             ELSE IF Range(Names(c.params)) \cap Range(Names(acc.params)) # {}
                  THEN Assembly("InternalError", <<>>, <<>>)
                  ELSE assembleFrom(filter, i + 1,
                           Assembly("ok", Append(acc.clauses, c.query), acc.params \o c.params))

assemble(filter) ==
    LET a == assembleFrom(filter, 1, Assembly("ok", <<>>, <<>>))
    IN  [status |-> a.status,
         query |-> IF a.status # "ok" THEN <<>>
                   ELSE IF a.clauses = <<>> THEN <<"*">>
                   ELSE Join(a.clauses, <<" ">>),
         params |-> a.params]

----------------------------------------------------------------------------
(* IndexRegistry and ListService.list                                      *)

MAX_LIMIT == 2

DefaultAudience == "*.localhost"
Audiences == {DefaultAudience, "not-existing-audience"}
Identities == {"u1", "u2"}

ValidPagination(req) ==
    req.offset >= 0 /\ req.limit > 0 /\ req.limit <= MAX_LIMIT

\* the lookup and the table it leaves behind: a miss fails, and adds nothing
IndexRegistry_resolve_creating(table, audience) ==
    [status |-> "ok", audience |-> audience, table |-> table \cup {audience}]

IndexRegistry_resolve(table, audience) ==
    IF audience \in table
    THEN [status |-> "ok", audience |-> audience, table |-> table]
    ELSE [status |-> "IndexNotRegistered", audience |-> audience, table |-> table]

NoResult == [status |-> "none", audience |-> "", users |-> <<>>]
ListFailure(kind, audience) == [status |-> kind, audience |-> audience, users |-> <<>>]
ListResult(users) == [status |-> "ok", audience |-> "", users |-> users]

\* what list answers when the engine rejects the compiled query
executionFailed_propagating(req) == ListFailure("QueryExecutionError", "")

executionFailed(req) == ListResult(<<>>)

\* metadata hydration keeps the engine's order
hydrate(ids, audience) == [i \in DOMAIN ids |-> [id |-> ids[i], audience |-> audience]]

NotAssembled == [status |-> "none", query |-> <<>>, params |-> <<>>]
NoRequest == [audience |-> "", offset |-> 0, limit |-> 0, filter |-> <<>>]

FilterEntry(prop, crit) == [prop |-> prop, crit |-> crit]
GmailValue == StringValue(<<"gmail">>)

FilterEntries ==
    {FilterEntry(<<"#">>, StringCriterion(<<"gmail">>)),
     FilterEntry(<<"id">>, StringCriterion(HostileText)),
     FilterEntry(<<"username">>, StringCriterion(<<"gmail">>)),
     FilterEntry(<<"username">>, ObjectCriterion([k \in {"eq"} |-> GmailValue], NoFields)),
     FilterEntry(<<"#multi">>,
                 ObjectCriterion([k \in {"match"} |-> GmailValue],
                                 [kind |-> "array", names |-> << <<"firstName">>, <<"lastName">> >>]))}

\* a filter mapping has each property name once
Filters ==
    {f \in SeqsUpTo(FilterEntries, MaxCriteria) :
        \A i, j \in DOMAIN f : i # j => f[i].prop # f[j].prop}

Requests ==
    {[audience |-> a, offset |-> o, limit |-> l, filter |-> f] :
        a \in Audiences, o \in -1..MaxOffset, l \in 0..(MAX_LIMIT + 1), f \in Filters}

\* the engine's answers: identities in its order, none twice, at most limit
Matches(limit) ==
    {m \in SeqsUpTo(Identities, Cardinality(Identities)) :
        /\ Len(m) <= limit
        /\ \A i, j \in DOMAIN m : i # j => m[i] # m[j]}

ListInit ==
    /\ pc = "idle"
    /\ registry = {DefaultAudience}
    /\ request = NoRequest
    /\ assembled = NotAssembled
    /\ engineReply = "none"
    /\ matched = <<>>
    /\ result = NoResult

\* provisioning of a tenant's index, done outside the listing path
Provision ==
    /\ \E a \in Audiences \ registry : registry' = registry \cup {a}
    /\ UNCHANGED <<pc, request, assembled, engineReply, matched, result>>
    /\ UNCHANGED <<cvars, jvars, mvars>>

\* list(request), up to the point where the query is handed to the engine
List ==
    /\ pc = "idle"
    /\ \E req \in Requests :
        /\ request' = req
        /\ IF ~ValidPagination(req)
           THEN /\ result' = ListFailure("ValidationError", "")
                /\ pc' = "done"
                /\ UNCHANGED <<registry, assembled>>
           ELSE LET index == IndexRegistry_resolve(registry, req.audience)
                    query == assemble(req.filter)
                IN  /\ registry' = index.table
                    /\ IF index.status # "ok"
                       THEN /\ result' = ListFailure(index.status, index.audience)
                            /\ pc' = "done"
                            /\ UNCHANGED assembled
                       ELSE /\ assembled' = query
                            /\ IF query.status # "ok"
                               THEN result' = ListFailure(query.status, "") /\ pc' = "done"
                               ELSE result' = NoResult /\ pc' = "executing"
    /\ UNCHANGED <<engineReply, matched>>
    /\ UNCHANGED <<cvars, jvars, mvars>>

\* the engine answers the compiled query
EngineMatches ==
    /\ pc = "executing"
    /\ \E m \in Matches(request.limit) : matched' = m
    /\ engineReply' = "ok"
    /\ pc' = "hydrating"
    /\ UNCHANGED <<registry, request, assembled, result>>
    /\ UNCHANGED <<cvars, jvars, mvars>>

\* the engine rejects the compiled query
EngineFails ==
    /\ pc = "executing"
    /\ engineReply' = "error"
    /\ result' = executionFailed(request)
    /\ pc' = "done"
    /\ UNCHANGED <<registry, request, assembled, matched>>
    /\ UNCHANGED <<cvars, jvars, mvars>>

\* the matched identities are hydrated and returned
Hydrate ==
    /\ pc = "hydrating"
    /\ result' = ListResult(hydrate(matched, request.audience))
    /\ pc' = "done"
    /\ UNCHANGED <<registry, request, assembled, engineReply, matched>>
    /\ UNCHANGED <<cvars, jvars, mvars>>

\* the caller has its answer; the service takes the next request
Return ==
    /\ pc = "done"
    /\ pc' = "idle"
    /\ request' = NoRequest
    /\ assembled' = NotAssembled
    /\ engineReply' = "none"
    /\ matched' = <<>>
    /\ result' = NoResult
    /\ UNCHANGED registry
    /\ UNCHANGED <<cvars, jvars, mvars>>

ListNext == Provision \/ List \/ EngineMatches \/ EngineFails \/ Hydrate \/ Return

----------------------------------------------------------------------------
(* utils/jwt.js: verify, logout and reset over the legacy and the stateless *)
(* token backends                                                          *)

\* an aud claim or an audience argument: one string, or an array of strings
OneString(s) == [kind |-> "string", items |-> <<s>>]
StringArray(items) == [kind |-> "array", items |-> items]

\* String(x) of such a value
ToStr(x) == IF x.kind = "string" THEN x.items[1] ELSE Join(x.items, <<",">>)

\* String.prototype.indexOf(t) !== -1
Contains(s, t) ==
    \E i \in 0..(Len(s) - Len(t)) : SubSeq(s, i + 1, i + Len(t)) = t

\* audience.indexOf(decodedToken.aud) !== -1: strict equality with an element of
\* an array, substring search in a string
IndexOfHit(aud, tokenAud) ==
    IF aud.kind = "array"
    THEN tokenAud.kind = "string" /\ tokenAud.items[1] \in Range(aud.items)
    ELSE Contains(aud.items[1], ToStr(tokenAud))

\* the audience option of jsonwebtoken's verify: skipped when the option is
\* falsy, else some aud of the token must equal some audience of the option
AudienceOptionOk(aud, tokenAud) ==
    \/ aud = OneString(<<>>)
    \/ Range(aud.items) \cap Range(tokenAud.items) # {}

JwtAnswer(status, next) == [status |-> status, next |-> next]

\* decodeAndVerify: the decoded token, or USERS_INVALID_TOKEN for whatever
\* jwtLib.verifyAsync throws
decodeAndVerify(tok, aud) ==
    IF tok.valid /\ AudienceOptionOk(aud, tok.aud)
    THEN JwtAnswer("decoded", <<>>)
    ELSE JwtAnswer("USERS_INVALID_TOKEN", <<>>)

isStatelessToken(tok) == tok.stateless
isStatelessEnabled(enabled) == enabled
\* assertRefreshToken: a stateless access token is refused
refreshTokenAsserted(tok) == ~tok.stateless \/ tok.refresh

Call(backend, op, arg) == [backend |-> backend, op |-> op, arg |-> arg]

\* verifyToken without its audience check
verifyToken_unchecked(enabled, tok, aud) ==
    LET decoded == decodeAndVerify(tok, aud)
    IN  IF decoded.status # "decoded" THEN decoded
        ELSE IF ~isStatelessToken(tok)
             THEN JwtAnswer("none", << Call("legacy", "verify", "token") >>)
             ELSE IF ~isStatelessEnabled(enabled)
                  THEN JwtAnswer("StatelessNotEnabled", <<>>)
                  ELSE JwtAnswer("none", << Call("stateless", "verify", "token") >>)

\* verifyToken up to the backend it awaits: the answer when it throws before
\* any backend, else the backend call it makes
verifyToken(enabled, tok, aud) ==
    LET decoded == decodeAndVerify(tok, aud)
    IN  IF decoded.status # "decoded" THEN decoded
        ELSE IF ~IndexOfHit(aud, tok.aud)
             THEN JwtAnswer("USERS_AUDIENCE_MISMATCH", <<>>)
             ELSE IF ~isStatelessToken(tok)
                  THEN JwtAnswer("none", << Call("legacy", "verify", "token") >>)
                  ELSE IF ~isStatelessEnabled(enabled)
                       THEN JwtAnswer("StatelessNotEnabled", <<>>)
                       ELSE JwtAnswer("none", << Call("stateless", "verify", "token") >>)

\* logout up to its Promise.all
logout(enabled, tok, aud) ==
    LET decoded == decodeAndVerify(tok, aud)
    IN  IF decoded.status # "decoded" THEN decoded
        ELSE IF ~refreshTokenAsserted(tok)
             THEN JwtAnswer("USERS_INVALID_TOKEN", <<>>)
             ELSE JwtAnswer("none",
                      << Call("legacy", "logout", "token") >>
                          \o (IF isStatelessEnabled(enabled)
                              THEN << Call("stateless", "logout", "token") >>
                              ELSE <<>>))

\* reset up to its Promise.all
reset(enabled, userId) ==
    JwtAnswer("none",
        << Call("stateless", "reset", userId) >>
            \o (IF isStatelessEnabled(enabled)
                THEN << Call("legacy", "reset", userId) >>
                ELSE <<>>))

LocalhostAudience == <<"*.", "localhost">>
AudienceStrings == {LocalhostAudience, <<"localhost">>, <<"app">>}

TokenAuds ==
    {OneString(a) : a \in AudienceStrings}
        \cup {StringArray(<< LocalhostAudience, <<"app">> >>)}

JwtTokens ==
    {[valid |-> v, aud |-> a, stateless |-> st, refresh |-> r] :
        v \in BOOLEAN, a \in TokenAuds, st \in BOOLEAN, r \in BOOLEAN}

\* getAudience gives [audience] or [audience, defaultAudience]; callers also
\* pass one string
AudienceArgs ==
    {OneString(LocalhostAudience), OneString(<<>>),
     StringArray(<< LocalhostAudience >>),
     StringArray(<< <<"app">>, LocalhostAudience >>)}

NoToken == [valid |-> FALSE, aud |-> OneString(<<>>), stateless |-> FALSE, refresh |-> FALSE]

JwtIdle ==
    /\ jpc = "idle"
    /\ jop = "none"
    /\ token = NoToken
    /\ requestedAudience = OneString(<<>>)
    /\ called = <<>>
    /\ succeeded = {}
    /\ outcome = "none"

JwtInit == JwtIdle /\ statelessEnabled \in BOOLEAN

\* an operation starts: it answers at once, or makes its backend calls and waits
Started(op, tok, aud, answer) ==
    /\ jpc = "idle"
    /\ jop' = op
    /\ token' = tok
    /\ requestedAudience' = aud
    /\ called' = answer.next
    /\ outcome' = answer.status
    /\ jpc' = IF answer.status = "none" THEN "awaiting" ELSE "done"
    /\ UNCHANGED <<statelessEnabled, succeeded>>
    /\ UNCHANGED <<cvars, lvars, mvars>>

Verify ==
    \E tok \in JwtTokens, aud \in AudienceArgs :
        Started("verify", tok, aud, verifyToken(statelessEnabled, tok, aud))

Logout ==
    \E tok \in JwtTokens, aud \in AudienceArgs :
        Started("logout", tok, aud, logout(statelessEnabled, tok, aud))

Reset ==
    \E userId \in Identities :
        Started("reset", NoToken, OneString(<<>>), reset(statelessEnabled, userId))

\* every awaited backend call resolves: the operation returns its value
BackendsResolve ==
    /\ jpc = "awaiting"
    /\ succeeded' = Range(called)
    /\ outcome' = IF jop = "verify" THEN "decoded" ELSE "ok"
    /\ jpc' = "done"
    /\ UNCHANGED <<statelessEnabled, jop, token, requestedAudience, called>>
    /\ UNCHANGED <<cvars, lvars, mvars>>

\* an awaited backend call rejects: the operation rejects with its error
BackendRejects ==
    /\ jpc = "awaiting"
    /\ \E S \in SUBSET Range(called) : S # Range(called) /\ succeeded' = S
    /\ outcome' = "BackendError"
    /\ jpc' = "done"
    /\ UNCHANGED <<statelessEnabled, jop, token, requestedAudience, called>>
    /\ UNCHANGED <<cvars, lvars, mvars>>

\* the caller has its answer
JwtReturn ==
    /\ jpc = "done"
    /\ jpc' = "idle"
    /\ jop' = "none"
    /\ token' = NoToken
    /\ requestedAudience' = OneString(<<>>)
    /\ called' = <<>>
    /\ succeeded' = {}
    /\ outcome' = "none"
    /\ UNCHANGED statelessEnabled
    /\ UNCHANGED <<cvars, lvars, mvars>>

JwtNext == Verify \/ Logout \/ Reset \/ BackendsResolve \/ BackendRejects \/ JwtReturn

----------------------------------------------------------------------------
(* Users: the mailer client kept over amqp plugin events                   *)

Null == [t |-> "object", v |-> <<"null">>]
True == [t |-> "boolean", v |-> <<"true">>]

\* config.mailer, as the defaults give it
MailerConfig == <<"mailer", "adhoc", "predefined">>

\* new Mailer(amqp, config): a client object holding its connection
Mailer(amqp, config) == [t |-> "object", v |-> <<"Mailer", amqp, config>>]

\* the truthiness || tests
ToBoolean(x) == x \notin {Undefined, Null, [t |-> "boolean", v |-> <<"false">>]}

NotImplementedError(message) == [name |-> "NotImplementedError", message |-> message]

\* the amqp connections the plugin hands over
Connections == {"amqp1", "amqp2"}

\* the handler of 'plugin:connect:amqp'
onConnectAmqp(amqp) == Mailer(amqp, MailerConfig)

onCloseAmqp_keeping(mailer) == mailer

\* the handler of 'plugin:close:amqp': the value _mailer takes
onCloseAmqp(mailer) == Null

\* EventEmitter#emit: with a listener the event is delivered and emit
\* returns true; an 'error' event without a listener throws its argument
Emitted(hasListener, event, arg) ==
    [ emitted  |-> << [event |-> event, arg |-> arg] >>,
      returned |-> IF hasListener THEN True ELSE Undefined,
      thrown   |-> ~hasListener ]

\* get mailer(): what a read returns, emits and throws
mailer(field, hasListener) ==
    IF ToBoolean(field)
    THEN [emitted |-> <<>>, returned |-> field, thrown |-> FALSE]
    ELSE Emitted(hasListener, "error", NotImplementedError("amqp is not connected"))

\* the service after its constructor has run
Constructed ==
    /\ _mailer = Undefined
    /\ fsortAttached = FALSE
    /\ events = <<>>
    /\ reads = <<>>

UsersInit == Constructed /\ errorListener \in BOOLEAN

\* this.on('plugin:connect:amqp', ...)
PluginConnectAmqp ==
    \E amqp \in Connections :
        /\ Len(events) < MaxEvents
        /\ _mailer' = onConnectAmqp(amqp)
        /\ events' = Append(events, [type |-> "connect", amqp |-> amqp])
        /\ UNCHANGED <<errorListener, fsortAttached, reads>>
        /\ UNCHANGED <<cvars, lvars, jvars>>

\* this.on('plugin:close:amqp', ...)
PluginCloseAmqp ==
    /\ Len(events) < MaxEvents
    /\ _mailer' = onCloseAmqp(_mailer)
    /\ events' = Append(events, [type |-> "close", amqp |-> "none"])
    /\ UNCHANGED <<errorListener, fsortAttached, reads>>
    /\ UNCHANGED <<cvars, lvars, jvars>>

\* this.on('plugin:connect:redisCluster', ...)
PluginConnectRedisCluster ==
    /\ fsortAttached' = TRUE
    /\ UNCHANGED <<_mailer, errorListener, events, reads>>
    /\ UNCHANGED <<cvars, lvars, jvars>>

\* a read of service.mailer, recorded with the number of amqp events
\* delivered before it
ReadMailer ==
    /\ Len(reads) < MaxReads
    /\ reads' = Append(reads, [at |-> Len(events), did |-> mailer(_mailer, errorListener)])
    /\ UNCHANGED <<_mailer, errorListener, fsortAttached, events>>
    /\ UNCHANGED <<cvars, lvars, jvars>>

UsersNext ==
    PluginConnectAmqp \/ PluginCloseAmqp \/ PluginConnectRedisCluster \/ ReadMailer

----------------------------------------------------------------------------
(* Specifications                                                          *)

CompileIdle ==
    /\ cpc = "input"
    /\ propName = <<"username">>
    /\ valueOrExpr = StringCriterion(<<"gmail">>)
    /\ resolved = NotRun
    /\ compiled = NotCompiled

\* the compiler applied to every input of the bounded sets
InitCompile ==
    CompileInit /\ ListInit /\ JwtIdle /\ statelessEnabled = FALSE
        /\ Constructed /\ errorListener = FALSE
SpecCompile == InitCompile /\ [][CompileNext]_vars

\* the listing service
InitList ==
    ListInit /\ CompileIdle /\ JwtIdle /\ statelessEnabled = FALSE
        /\ Constructed /\ errorListener = FALSE
SpecList == InitList /\ [][ListNext]_vars

\* the token operations
InitJwt == JwtInit /\ CompileIdle /\ ListInit /\ Constructed /\ errorListener = FALSE
SpecJwt == InitJwt /\ [][JwtNext]_vars

\* the Users service under amqp plugin events
InitMailer == UsersInit /\ CompileIdle /\ ListInit /\ JwtIdle /\ statelessEnabled = FALSE
SpecMailer == InitMailer /\ [][UsersNext]_vars

Spec == SpecList

----------------------------------------------------------------------------
(* Claims about the compiler, checked under SpecCompile                    *)

Tokens(s) == {s[i] : i \in DOMAIN s}
Keys(expr) == DOMAIN expr.ops

\* the text the caller supplied as criterion values
ValueTokens(expr) ==
    IF expr.kind = "string" THEN Tokens(expr.str)
    ELSE UNION {Tokens(expr.ops[k].v) : k \in Keys(expr)}

\* the renderings of the finite numeric range bounds of a criterion
FiniteBoundTokens(expr) ==
    UNION {Tokens(Get(expr, k).v) : k \in {b \in {"gte", "lte"} : IsFiniteNumber(Get(expr, b))}}

\* a plain string, or an object holding exactly one of eq, ne, match
IsValueCriterion(expr) ==
    \/ expr.kind = "string"
    \/ expr.kind = "object" /\ Keys(expr) \in {{"eq"}, {"ne"}, {"match"}}

\* the same criterion carrying another value
WithValue(expr, p) ==
    IF expr.kind = "string" THEN StringCriterion(p.v)
    ELSE [expr EXCEPT !.ops = [k \in Keys(expr) |-> p]]

TheKey(expr) == CHOOSE k \in Keys(expr) : TRUE

\* C2: user-supplied values enter the query only as parameter bindings.  Compiling
\* a plain-string, eq, ne or match criterion with another value gives the same
\* outcome, the same clause text and the same parameter names; the clause builder
\* and the parameter builder of the operator give the same text and name for
\* both values and bind exactly the supplied value; and no text of a supplied
\* value occurs in any compiled clause, a finite numeric range bound excepted.
C2_ValuesOnlyBound ==
    cpc = "compiled" =>
        /\ IsValueCriterion(valueOrExpr) =>
            \A p \in StringValues :
                LET other == compile(propName, WithValue(valueOrExpr, p))
                IN  /\ other.status = compiled.status
                    /\ other.query = compiled.query
                    /\ Names(other.params) = Names(compiled.params)
                    /\ \A i \in DOMAIN other.params : other.params[i].value = p
        /\ (IsValueCriterion(valueOrExpr) /\ valueOrExpr.kind = "object"
                /\ resolved.status = "ok") =>
            \A p \in StringValues :
                LET key == <<TheKey(valueOrExpr)>>
                    prop == resolved.value
                    text == searchQueryBuilder(key, prop, namedField(prop), valueOrExpr)
                    bound == searchParamBuilder(key, prop, valueOrExpr)
                    other == WithValue(valueOrExpr, p)
                IN  /\ searchQueryBuilder(key, prop, namedField(prop), other) = text
                    /\ Tokens(text) \cap ValueTokens(valueOrExpr) = {}
                    /\ searchParamBuilder(key, prop, other) = Param(bound.name, p)
                    /\ bound.value = Get(valueOrExpr, TheKey(valueOrExpr))
        /\ compiled.status = "ok" =>
            (Tokens(compiled.query) \cap ValueTokens(valueOrExpr))
                \subseteq FiniteBoundTokens(valueOrExpr)

\* C2 witness: a plain string holding query syntax was compiled, and was bound
C2_Witness ==
    /\ cpc = "compiled"
    /\ propName = <<"username">>
    /\ valueOrExpr = StringCriterion(HostileText)
    /\ compiled.status = "ok"
    /\ compiled.params = << Param(<<"f", "_", "@", "username">>, StringValue(HostileText)) >>

\* one recognized operator key, or the gte/lte pair
PermittedKeys(K) == K \in ({{k} : k \in OperatorKeys} \cup {{"gte", "lte"}})

\* C4 (as claimed): compiling a criterion object succeeds only with exactly one
\* recognized operator key or the gte/lte pair; every other key or combination
\* raises ValidationError and produces no clause and no binding.
C4_UnsupportedOperatorRejected ==
    (cpc = "compiled" /\ valueOrExpr.kind = "object" /\ resolved.status = "ok") =>
        /\ compiled.status = "ok" => PermittedKeys(Keys(valueOrExpr))
        /\ ~PermittedKeys(Keys(valueOrExpr)) =>
            compiled = Failed("ValidationError")

\* C5 (as claimed): #multi{fields: [a, b], match: m} compiles to one match clause
\* that targets the union of the listed fields in their given order, with m bound.
C5_MultiTargetsUnion ==
    (/\ cpc = "compiled"
     /\ propName = <<"#multi">>
     /\ valueOrExpr.kind = "object"
     /\ Keys(valueOrExpr) = {"match"}
     /\ valueOrExpr.fields.kind = "array"
     /\ Len(valueOrExpr.fields.names) >= 2) =>
        /\ compiled.status = "ok"
        /\ Len(compiled.params) = 1
        /\ compiled.params[1].value = Get(valueOrExpr, "match")
        /\ compiled.query =
             expression(namedField(Join(valueOrExpr.fields.names, <<"|">>)),
                        matchAny(paramRef(compiled.params[1].name)))

\* C6 (as claimed): on one field the exists clause is exactly the negation of the
\* isempty clause, which is the field against the empty marker; neither carries a
\* parameter binding.
C6_ExistsNegatesIsEmpty ==
    (/\ cpc = "compiled"
     /\ valueOrExpr.kind = "object"
     /\ resolved.status = "ok"
     /\ Keys(valueOrExpr) \in {{"exists"}, {"isempty"}}) =>
        LET p == valueOrExpr.ops[TheKey(valueOrExpr)]
            ex == compile(propName, ObjectCriterion([k \in {"exists"} |-> p], valueOrExpr.fields))
            em == compile(propName, ObjectCriterion([k \in {"isempty"} |-> p], valueOrExpr.fields))
        IN  /\ compiled.status = "ok"
            /\ compiled.params = <<>>
            /\ ex.status = "ok" /\ em.status = "ok"
            /\ em.query = expression(namedField(resolved.value), EMPTY_VALUE)
            /\ ex.query = negative(em.query)
            /\ ex.params = <<>> /\ em.params = <<>>

\* C8 (as claimed): ne(v) on property p compiles to the negation of the complete
\* tag-equality clause against the parameter f_<p>_ne, with the one binding
\* (f_<p>_ne, v).
C8_NeNegatesTagEquality ==
    (/\ cpc = "compiled"
     /\ valueOrExpr.kind = "object"
     /\ resolved.status = "ok"
     /\ Keys(valueOrExpr) = {"ne"}) =>
        LET name == <<"f", "_">> \o resolved.value \o <<"_", "ne">>
        IN  /\ compiled.status = "ok"
            /\ compiled.query =
                 negative(expression(namedField(resolved.value), tag(paramRef(name))))
            /\ compiled.params = << Param(name, Get(valueOrExpr, "ne")) >>

\* C9 (as claimed): a gte/lte criterion with a bound that is not a finite number
\* raises ValidationError and embeds nothing; with finite bounds it compiles to
\* the range clause, an absent bound rendered as the sentinel of its side.
C9_RangeBoundsValidated ==
    (/\ cpc = "compiled"
     /\ valueOrExpr.kind = "object"
     /\ resolved.status = "ok"
     /\ Keys(valueOrExpr) # {}
     /\ Keys(valueOrExpr) \subseteq {"gte", "lte"}) =>
        IF \A k \in Keys(valueOrExpr) : IsFiniteNumber(valueOrExpr.ops[k])
        THEN compiled =
               Built(expression(namedField(resolved.value),
                                numericRange(Get(valueOrExpr, "gte"), Get(valueOrExpr, "lte"))),
                     <<>>)
        ELSE compiled = Failed("ValidationError")

\* C10 (as claimed): resolve("#multi", extra) fails with ValidationError whenever
\* extra carries no fields sequence; "#" resolves to the identity field constant and
\* every other property name to itself.
C10_ResolveContract ==
    cpc = "resolved" =>
        /\ propName = <<"#">> => resolved = Ok(USERS_ID_FIELD)
        /\ propName \notin {<<"#">>, <<"#multi">>} => resolved = Ok(propName)
        /\ (propName = <<"#multi">> /\ GetFields(valueOrExpr).kind # "array") =>
            resolved.status = "ValidationError"

----------------------------------------------------------------------------
(* Claims about the listing service, checked under SpecList                *)

\* C1: a list call with valid pagination whose audience has no provisioned index
\* ends at once with IndexNotRegistered naming that audience, whatever its filter,
\* offset and limit: no result is returned, the engine is not asked, no query is
\* assembled, and the registry is left as it was.
C1_UnregisteredAudienceFails ==
    [][(/\ pc = "idle"
        /\ pc' # "idle"
        /\ ValidPagination(request')
        /\ request'.audience \notin registry) =>
            /\ pc' = "done"
            /\ result' = ListFailure("IndexNotRegistered", request'.audience)
            /\ registry' = registry
            /\ assembled' = NotAssembled
            /\ engineReply' = "none"]_vars

\* C1 witness: such a call, carrying a filter that would not have compiled
C1_Witness ==
    /\ pc = "done"
    /\ request.audience = "not-existing-audience"
    /\ request.audience \notin registry
    /\ Len(request.filter) = MaxCriteria
    /\ assemble(request.filter).status = "TypeError"
    /\ request.offset = MaxOffset
    /\ result = ListFailure("IndexNotRegistered", "not-existing-audience")

\* C3: once the engine has been asked, list cannot end in an error: an engine
\* failure ends the call with an empty users list; and the only error a call with
\* valid pagination and a compiling filter can end in is IndexNotRegistered.
C3_EngineFailureDowngraded ==
    /\ (pc = "done" /\ engineReply = "error") => result = ListResult(<<>>)
    /\ engineReply # "none" => result.status \in {"none", "ok"}
    /\ (/\ pc = "done"
        /\ ValidPagination(request)
        /\ assemble(request.filter).status = "ok"
        /\ result.status # "ok") => result.status = "IndexNotRegistered"

\* C3 witness: the engine rejected the query of a filtered request on a
\* registered audience
C3_Witness ==
    /\ pc = "done"
    /\ engineReply = "error"
    /\ request.audience \in registry
    /\ request.filter # <<>>
    /\ assembled.status = "ok"
    /\ result = ListResult(<<>>)

\* C7 (as claimed): for a filter mapping of distinct property names with
\* plain-string, eq, ne or match criteria, the parameter names its criteria
\* compile to are pairwise distinct, and assembling it never ends in the
\* collision InternalError.
C7_ParamNamesDistinct ==
    assembled.status # "none" =>
        /\ assembled.status # "InternalError"
        /\ \A i, j \in DOMAIN request.filter :
            LET ci == compile(request.filter[i].prop, request.filter[i].crit)
                cj == compile(request.filter[j].prop, request.filter[j].crit)
            IN  (i < j /\ ci.status = "ok" /\ cj.status = "ok") =>
                    Range(Names(ci.params)) \cap Range(Names(cj.params)) = {}

----------------------------------------------------------------------------
(* Claims about the token operations, checked under SpecJwt                *)

\* the token's aud is one of the requested audiences
AudRequested(aud, tokenAud) ==
    tokenAud.kind = "string" /\ tokenAud.items[1] \in Range(aud.items)

BackendOf(tok) == IF tok.stateless THEN "stateless" ELSE "legacy"

\* C11 (amended): verify returns the decoded token only after exactly one
\* verification backend, the one of the token's kind, was called and resolved; no
\* verify ever calls two backends or the backend of the other kind; a token whose
\* aud is not in the requested audience is rejected before any backend is called,
\* with USERS_INVALID_TOKEN when decodeAndVerify refuses it and with
\* USERS_AUDIENCE_MISMATCH when it decodes; and with stateless mode disabled a
\* stateless token is rejected without the stateless backend being called.
C11_VerifyOneBackend ==
    jop = "verify" =>
        /\ Len(called) <= 1
        /\ \A i \in DOMAIN called : called[i] = Call(BackendOf(token), "verify", "token")
        /\ outcome = "decoded" =>
            /\ called = << Call(BackendOf(token), "verify", "token") >>
            /\ succeeded = Range(called)
        /\ ~AudRequested(requestedAudience, token.aud) =>
            /\ called = <<>>
            /\ outcome \in {"USERS_INVALID_TOKEN", "USERS_AUDIENCE_MISMATCH"}
            /\ outcome = "USERS_AUDIENCE_MISMATCH" <=>
                   decodeAndVerify(token, requestedAudience).status = "decoded"
        /\ (token.stateless /\ ~statelessEnabled) =>
            /\ called = <<>>
            /\ outcome # "decoded"

\* C11 witness: a well-signed token carrying two audiences, one of them the
\* requested one, decodes and is then refused for its aud with no backend called
C11_Witness ==
    /\ jop = "verify"
    /\ jpc = "done"
    /\ token.valid
    /\ token.aud = StringArray(<< LocalhostAudience, <<"app">> >>)
    /\ requestedAudience = StringArray(<< LocalhostAudience >>)
    /\ outcome = "USERS_AUDIENCE_MISMATCH"
    /\ called = <<>>

\* C11 (as claimed): a well-signed token whose aud is not in the requested
\* audience is rejected with USERS_AUDIENCE_MISMATCH.
C11_MismatchAlwaysReported ==
    (/\ jop = "verify"
     /\ jpc = "done"
     /\ token.valid
     /\ ~AudRequested(requestedAudience, token.aud)) =>
        outcome = "USERS_AUDIENCE_MISMATCH"

\* C12 (as claimed): reset(userId) calls the legacy reset for that user on every
\* call and the stateless reset only when stateless mode is enabled; logout calls
\* the legacy logout always and the stateless logout only when enabled.
C12_ResetLegacyAlways ==
    /\ (jop = "reset" /\ jpc # "idle") =>
        /\ \E u \in Identities : Call("legacy", "reset", u) \in Range(called)
        /\ (\E u \in Identities : Call("stateless", "reset", u) \in Range(called))
               <=> statelessEnabled
    /\ (jop = "logout" /\ called # <<>>) =>
        /\ Call("legacy", "logout", "token") \in Range(called)
        /\ Call("stateless", "logout", "token") \in Range(called) <=> statelessEnabled

----------------------------------------------------------------------------
(* Claims about the Users service, checked under SpecMailer                *)

IsClient(x) == x.t = "object" /\ x # Null /\ x.v[1] = "Mailer"

\* the most recent amqp event before a read was a connect
ConnectedAt(read) == read.at > 0 /\ events[read.at].type = "connect"

\* C13: over any sequence of amqp plugin connect and close events, a read of
\* the mailer getter returns a mailer client if and only if the most recent
\* event was a connect, and then it is the client built from that latest
\* connection; before the first connect and after every close the read
\* returns no client and emits an error event carrying
\* NotImplementedError('amqp is not connected').
C13_MailerFollowsAmqp ==
    \A i \in DOMAIN reads :
        LET read == reads[i]
        IN  /\ IsClient(read.did.returned) <=> ConnectedAt(read)
            /\ ConnectedAt(read) =>
                   /\ read.did.returned = Mailer(events[read.at].amqp, MailerConfig)
                   /\ read.did.emitted = <<>>
            /\ ~ConnectedAt(read) =>
                   /\ ~IsClient(read.did.returned)
                   /\ read.did.emitted =
                          << [event |-> "error",
                              arg |-> NotImplementedError("amqp is not connected")] >>

\* connect, close, connect on another connection: a read after the close
\* emitted the error and a read after the second connect returned the client
\* of the second connection
C13_Witness ==
    /\ Len(events) = 3
    /\ events[1].type = "connect" /\ events[2].type = "close"
    /\ events[3].type = "connect" /\ events[3].amqp # events[1].amqp
    /\ Len(reads) = 2
    /\ reads[1].at = 2 /\ reads[1].did.emitted # <<>>
    /\ reads[2].at = 3 /\ reads[2].did.returned = Mailer(events[3].amqp, MailerConfig)

====
